---- MODULE Spec2Model ----
(***************************************************************************)
(* Tag dependency engine of dmm (src/tagging/tag_dependency_manager.py).   *)
(*                                                                         *)
(* TagDependencyManager keeps a dependency map (tag name -> set of names   *)
(* its conditions read).  analyze_dependencies builds the map from a       *)
(* schema, reading each condition with _extract_variables_from_condition,  *)
(* which drops quoted literals and then collects identifiers.              *)
(* get_ordered_tags repairs a tag order against the map by repeated local  *)
(* moves; detect_circular_dependencies walks the map depth first and       *)
(* records the back edges it meets.  TagRegistry.get_tag_config            *)
(* (src/tagging/tag_registry.py) owns one engine and calls the analysis    *)
(* and the ordering on the schema it loads.                                *)
(*                                                                         *)
(* Indices are 0-based as in the source: the element at index j of a list  *)
(* l is l[j + 1].                                                          *)
(***************************************************************************)
EXTENDS Integers, Sequences, FiniteSets, TLC

VARIABLES
    tag_config,         \* self.tag_config: the schema of the latest analysis
    tag_dependencies,   \* self.tag_dependencies: tag name -> set of names
    dependencies,       \* dict returned by analyze_dependencies, held by the
                        \* caller until its next call on the engine
    analyses,           \* number of analyze_dependencies calls made so far
    condition,          \* argument of _extract_variables_from_condition
    variables,          \* value returned by _extract_variables_from_condition
    tag_order,          \* argument of get_ordered_tags
    ordered_tags,       \* working list of get_ordered_tags
    previous_order,     \* copy of the working list taken at the top of a pass
    result,             \* value returned by get_ordered_tags
    pc,                 \* position of the running call
    cycles,             \* detect_circular_dependencies: cycles found so far
    visited,            \* detect_circular_dependencies: visited set
    rec_stack,          \* detect_circular_dependencies: recursion-stack set
    frames,             \* activation records of dfs, innermost last
    keys_todo,          \* keys of the map the outer loop has still to take
    first_result,       \* what the caller got from the first of two equal calls
    iteration           \* the order in which the stored dict yields its keys
                        \* and each stored set its names, while unmodified

vars == <<tag_config, tag_dependencies, dependencies, analyses,
          condition, variables,
          tag_order, ordered_tags, previous_order, result,
          pc, cycles, visited, rec_stack, frames, keys_todo,
          first_result, iteration>>

extractVars == <<condition, variables>>

orderVars == <<tag_order, ordered_tags, previous_order, result>>
detectVars == <<cycles, visited, rec_stack, frames, keys_todo>>
repeatVars == <<first_result, iteration>>

----------------------------------------------------------------------------
(* Bounds and input universes *)

MaxLen == 3

Names == {"a", "b", "c"}

\* every map with keys among Names and values sets of Names
DepMaps == UNION {[K -> SUBSET Names] : K \in SUBSET Names}

\* every list over Names of length 0..MaxLen, repeated names included
TagOrders == UNION {[1..n -> Names] : n \in 0..MaxLen}

\* maps and orders of the repository's tests
SimpleDeps ==
    [t \in {"participants", "girls", "guys"} |->
        CASE t = "participants" -> {}
          [] t = "girls" -> {"participants"}
          [] t = "guys" -> {"participants", "girls"}]

RealWorldDeps ==
    [t \in {"participants", "girls", "guys", "action", "dance_style", "scene"} |->
        CASE t = "girls" -> {"participants"}
          [] t = "guys" -> {"participants", "girls"}
          [] t = "dance_style" -> {"action", "girls", "guys", "scene"}
          [] OTHER -> {}]

ComplexDeps ==
    [t \in {"participants", "girls", "guys", "action", "scene", "dance_style"} |->
        CASE t = "girls" -> {"participants"}
          [] t = "guys" -> {"participants", "girls"}
          [] t = "dance_style" -> {"action"}
          [] OTHER -> {}]

RingDeps ==
    [t \in {"tag1", "tag2", "tag3"} |->
        CASE t = "tag1" -> {"tag2"}
          [] t = "tag2" -> {"tag3"}
          [] t = "tag3" -> {"tag1"}]

YamlOrder == <<"dance_style", "participants", "girls", "guys", "action", "scene">>

MixedOrder == <<"girls", "participants", "guys">>

OriginalOrder == <<"participants", "girls", "guys">>

TestMaps == {SimpleDeps, ComplexDeps, RealWorldDeps, RingDeps}

\* the orders a call is tried on, given the map the engine holds
InputOrders(deps) ==
    IF deps \in DepMaps THEN TagOrders
    ELSE IF deps = SimpleDeps THEN {OriginalOrder, MixedOrder}
    ELSE IF deps = RingDeps THEN {<<"tag3", "tag2", "tag1">>}
    ELSE {YamlOrder}

----------------------------------------------------------------------------
(* List helpers: Python list operations *)

Max[S \in SUBSET Int] == CHOOSE x \in S : \A y \in S : y <= x

Min(S) == CHOOSE x \in S : \A y \in S : x <= y

Range(l) == {l[k] : k \in 1..Len(l)}

\* list.pop(i) for 0 <= i < len: the list without the element at index i
Pop(l, i) == SubSeq(l, 1, i) \o SubSeq(l, i + 2, Len(l))

\* list.insert(k, x): x ends at index k, clamped into 0..len
Insert(l, k, x) ==
    LET at == IF k > Len(l) THEN Len(l)
              ELSE IF k < 0 THEN (IF Len(l) + k < 0 THEN 0 ELSE Len(l) + k)
              ELSE k
    IN SubSeq(l, 1, at) \o <<x>> \o SubSeq(l, at + 1, Len(l))

----------------------------------------------------------------------------
(* _extract_variables_from_condition *)

(* A condition is a Python str, modelled as the list of its characters; the *)
(* characters are ASCII.  None is a one-element list that is no str.        *)

None == <<"None">>

DoubleQuote == "\""

SingleQuote == "'"

LowerLetters ==
    <<"a", "b", "c", "d", "e", "f", "g", "h", "i", "j", "k", "l", "m",
      "n", "o", "p", "q", "r", "s", "t", "u", "v", "w", "x", "y", "z">>

UpperLetters ==
    <<"A", "B", "C", "D", "E", "F", "G", "H", "I", "J", "K", "L", "M",
      "N", "O", "P", "Q", "R", "S", "T", "U", "V", "W", "X", "Y", "Z">>

Digits == {"0", "1", "2", "3", "4", "5", "6", "7", "8", "9"}

\* the characters of [a-zA-Z_]
IdentStartChars ==
    {LowerLetters[k] : k \in 1..26} \cup {UpperLetters[k] : k \in 1..26} \cup {"_"}

\* str.lower() on the upper-case letters
ToLower ==
    [c \in {UpperLetters[k] : k \in 1..26} |->
        LowerLetters[CHOOSE k \in 1..26 : c = UpperLetters[k]]]

\* [a-zA-Z_]
IsIdentStart(c) == c \in IdentStartChars

\* [a-zA-Z0-9_], which is also \w on ASCII text
IsWordChar(c) == IsIdentStart(c) \/ c \in Digits

\* str.lower() on one character
LowerChar(c) == IF c \in DOMAIN ToLower THEN ToLower[c] ELSE c

\* the str made of the characters of a list
RECURSIVE Str(_)
Str(chars) == IF chars = <<>> THEN "" ELSE Head(chars) \o Str(Tail(chars))

\* match.lower()
RECURSIVE Lower(_)
Lower(chars) ==
    IF chars = <<>> THEN "" ELSE LowerChar(Head(chars)) \o Lower(Tail(chars))

\* index of the first quote character at index j or later, -1 without one
RECURSIVE ClosingQuote(_, _, _)
ClosingQuote(text, quote, j) ==
    IF j >= Len(text) THEN -1
    ELSE IF text[j + 1] = quote THEN j
    ELSE ClosingQuote(text, quote, j + 1)

\* re.sub of quote [^quote]* quote by '' from index i on: the leftmost match
\* starts at the first quote character that has a later one, and ends at the
\* next one; the scan goes on behind it
RECURSIVE RemoveLiteralsFrom(_, _, _)
RemoveLiteralsFrom(text, quote, i) ==
    IF i >= Len(text) THEN <<>>
    ELSE IF text[i + 1] = quote /\ ClosingQuote(text, quote, i + 1) # -1
         THEN RemoveLiteralsFrom(text, quote, ClosingQuote(text, quote, i + 1) + 1)
         ELSE <<text[i + 1]>> \o RemoveLiteralsFrom(text, quote, i + 1)

RemoveLiterals(text, quote) == RemoveLiteralsFrom(text, quote, 0)

\* condition_without_strings: the double-quoted literals are removed first,
\* then the single-quoted literals of what is left
ConditionWithoutStrings(text) ==
    RemoveLiterals(RemoveLiterals(text, DoubleQuote), SingleQuote)

\* index behind the run of word characters that starts at index i
RECURSIVE RunEnd(_, _)
RunEnd(text, i) ==
    IF i >= Len(text) THEN i
    ELSE IF IsWordChar(text[i + 1]) THEN RunEnd(text, i + 1)
    ELSE i

\* \b at index i in front of a word character: no word character before it
AtWordStart(text, i) == i = 0 \/ ~IsWordChar(text[i])

\* re.findall(r'\b[a-zA-Z_][a-zA-Z0-9_]*\b', text) from index i on: a match
\* is a whole run of word characters whose first one is no digit
RECURSIVE FindAllFrom(_, _)
FindAllFrom(text, i) ==
    IF i >= Len(text) THEN <<>>
    ELSE IF AtWordStart(text, i) /\ IsIdentStart(text[i + 1])
         THEN <<SubSeq(text, i + 1, RunEnd(text, i))>>
                 \o FindAllFrom(text, RunEnd(text, i))
         ELSE FindAllFrom(text, i + 1)

FindAll(text) == FindAllFrom(text, 0)

operators == {"and", "or", "not", "true", "false", "null", "undefined"}

\* a filter that compares the match itself with the operators
KeepMatch_CaseSensitive(match, seen) ==
    Str(match) \notin operators /\ Str(match) \notin seen

\* a filter that keeps repeated matches
KeepMatch_Repeated(match, seen) == Lower(match) \notin operators

\* if match.lower() not in operators and match not in seen
KeepMatch(match, seen) == Lower(match) \notin operators /\ Str(match) \notin seen

\* the loop over the matches from index k on; seen holds the names of the
\* list built so far
RECURSIVE FilterFrom(_, _, _)
FilterFrom(matches, k, found) ==
    IF k >= Len(matches) THEN found
    ELSE IF KeepMatch(matches[k + 1], {found[n] : n \in 1..Len(found)})
         THEN FilterFrom(matches, k + 1, Append(found, Str(matches[k + 1])))
         ELSE FilterFrom(matches, k + 1, found)

\* what a call leaves when re.sub is handed None: a TypeError, no list
TypeError == <<"TypeError">>

\* a method without the test of its first line
ExtractVariablesFromCondition_NoTest(cond) ==
    IF cond = None THEN TypeError
    ELSE FilterFrom(FindAll(ConditionWithoutStrings(cond)), 0, <<>>)

\* the list the method returns for a condition
ExtractVariablesFromCondition(cond) ==
    IF cond = None \/ cond = <<>> THEN <<>>
    ELSE FilterFrom(FindAll(ConditionWithoutStrings(cond)), 0, <<>>)

\* the conditions of the repository's tests, two conditions whose literals
\* of one quote style hold the other quote character, a condition with the
\* operators in upper and mixed case, and a condition with open parentheses
\* and an open quote
\* participants >= 1
ReqParticipants ==
    <<"p", "a", "r", "t", "i", "c", "i", "p", "a", "n", "t", "s", " ", ">",
      "=", " ", "1">>

\* participants - girls > 0
ReqParticipantsGirls ==
    <<"p", "a", "r", "t", "i", "c", "i", "p", "a", "n", "t", "s", " ", "-",
      " ", "g", "i", "r", "l", "s", " ", ">", " ", "0">>

\* (girls > 0 && guys > 0) && scene == 'gym'
ReqGirlsGuysScene ==
    <<"(", "g", "i", "r", "l", "s", " ", ">", " ", "0", " ", "&", "&", " ",
      "g", "u", "y", "s", " ", ">", " ", "0", ")", " ", "&", "&", " ", "s",
      "c", "e", "n", "e", " ", "=", "=", " ", SingleQuote, "g", "y", "m",
      SingleQuote>>

\* action == "dancing"
ReqAction ==
    <<"a", "c", "t", "i", "o", "n", " ", "=", "=", " ", DoubleQuote, "d",
      "a", "n", "c", "i", "n", "g", DoubleQuote>>

\* size == '5"' && unit == 'in' && w == '6"'
ReqInches ==
    <<"s", "i", "z", "e", " ", "=", "=", " ", SingleQuote, "5", DoubleQuote,
      SingleQuote, " ", "&", "&", " ", "u", "n", "i", "t", " ", "=", "=",
      " ", SingleQuote, "i", "n", SingleQuote, " ", "&", "&", " ", "w", " ",
      "=", "=", " ", SingleQuote, "6", DoubleQuote, SingleQuote>>

\* x == '"' + "don't"
ReqApostrophe ==
    <<"x", " ", "=", "=", " ", SingleQuote, DoubleQuote, SingleQuote, " ",
      "+", " ", DoubleQuote, "d", "o", "n", SingleQuote, "t", DoubleQuote>>

\* a AND b OR NOT True == NULL || Undefined && FALSE
ReqUpperOperators ==
    <<"a", " ", "A", "N", "D", " ", "b", " ", "O", "R", " ", "N", "O", "T",
      " ", "T", "r", "u", "e", " ", "=", "=", " ", "N", "U", "L", "L", " ",
      "|", "|", " ", "U", "n", "d", "e", "f", "i", "n", "e", "d", " ", "&",
      "&", " ", "F", "A", "L", "S", "E">>

\* ((a == "b
ReqUnbalanced ==
    <<"(", "(", "a", " ", "=", "=", " ", DoubleQuote, "b">>

TestConditions ==
    {ReqParticipants, ReqParticipantsGirls, ReqGirlsGuysScene, ReqAction,
     ReqInches, ReqApostrophe, ReqUpperOperators, ReqUnbalanced}

MaxCond == 5

\* a letter in both cases, a second letter, a digit, the underscore, the two
\* quote characters and the blank: "or" and "Or" are operators, "ro" is a name
CondChars == {"o", "O", "r", "1", "_", DoubleQuote, SingleQuote, " "}

\* None, every str over CondChars of length 0..MaxCond, the test conditions
Conditions ==
    {None} \cup UNION {[1..n -> CondChars] : n \in 0..MaxCond} \cup TestConditions

\* one call of the method
ExtractVariables ==
    /\ pc = "constructed"
    /\ \E cond \in Conditions :
          /\ condition' = cond
          /\ variables' = ExtractVariablesFromCondition(cond)
    /\ pc' = "extracted"
    /\ UNCHANGED <<tag_config, tag_dependencies, dependencies, analyses>>
    /\ UNCHANGED orderVars
    /\ UNCHANGED detectVars
    /\ UNCHANGED repeatVars

----------------------------------------------------------------------------
(* analyze_dependencies *)

(* A schema is a dict: a record with or without the field tags.  tags maps *)
(* tag names to tag_info dicts, records with or without the fields req (a   *)
(* condition) and values (a list).  An entry of values is a dict, a record  *)
(* with the field value and with or without the field req, or a plain       *)
(* literal, written as a record with the field literal.  Keys the method     *)
(* does not read (desc, type, default) are left out.                         *)

\* the conditions of the schemas of the repository's tests
\* girls >= 1
ReqGirls ==
    <<"g", "i", "r", "l", "s", " ", ">", "=", " ", "1">>

\* girls + guys > 0
ReqGirlsPlusGuys ==
    <<"g", "i", "r", "l", "s", " ", "+", " ", "g", "u", "y", "s", " ", ">",
      " ", "0">>

\* girls > 0 && guys > 0
ReqGirlsAndGuys ==
    <<"g", "i", "r", "l", "s", " ", ">", " ", "0", " ", "&", "&", " ", "g",
      "u", "y", "s", " ", ">", " ", "0">>

\* (girls > 0 && guys > 0) && scene == "gym"
ReqGirlsGuysGym ==
    <<"(", "g", "i", "r", "l", "s", " ", ">", " ", "0", " ", "&", "&", " ",
      "g", "u", "y", "s", " ", ">", " ", "0", ")", " ", "&", "&", " ", "s",
      "c", "e", "n", "e", " ", "=", "=", " ", DoubleQuote, "g", "y", "m",
      DoubleQuote>>

\* guys > 0
ReqGuys ==
    <<"g", "u", "y", "s", " ", ">", " ", "0">>

\* tag1
ReqTag1 ==
    <<"t", "a", "g", "1">>

\* tag2
ReqTag2 ==
    <<"t", "a", "g", "2">>

\* tag3
ReqTag3 ==
    <<"t", "a", "g", "3">>

\* c > 0
ReqC ==
    <<"c", " ", ">", " ", "0">>

\* the schemas of the repository's tests
\* test_get_ordered_tags_simple, test_no_circular_dependencies
SimpleSchema ==
    [tags |->
        ("participants" :> <<>>) @@
        ("girls" :> [req |-> ReqParticipants]) @@
        ("guys" :> [req |-> ReqParticipantsGirls])]

\* test_get_ordered_tags_complex
ComplexSchema ==
    [tags |->
        ("participants" :> <<>>) @@
        ("girls" :> [req |-> ReqParticipants]) @@
        ("guys" :> [req |-> ReqParticipantsGirls]) @@
        ("action" :> <<>>) @@
        ("scene" :> <<>>) @@
        ("dance_style" :> [req |-> ReqAction])]

\* test_detect_circular_dependencies
RingSchema ==
    [tags |->
        ("tag1" :> [req |-> ReqTag2]) @@
        ("tag2" :> [req |-> ReqTag3]) @@
        ("tag3" :> [req |-> ReqTag1])]

\* test_analyze_dependencies_with_value_conditions
ValueConditionsSchema ==
    [tags |->
        ("action" :> [values |->
                <<[literal |-> "existing"], [literal |-> "dancing"],
                  [literal |-> "climbing"]>>]) @@
        ("dance_style" :> [req |-> ReqAction,
           values |->
                <<[value |-> "shuffle", req |-> ReqGirls],
                  [value |-> "swing", req |-> ReqGirlsPlusGuys],
                  [value |-> "salsa", req |-> ReqGirlsAndGuys]>>])]

\* test_simple_ordering_issue
OrderingIssueSchema ==
    [tags |->
        ("a" :> [req |-> ReqC,
           values |->
                <<[literal |-> "yes"], [literal |-> "no"]>>]) @@
        ("b" :> [values |->
                <<[literal |-> "yes"], [literal |-> "no"]>>]) @@
        ("c" :> [values |->
                <<[literal |-> "0"], [literal |-> "1"], [literal |-> "2"]>>])]

\* test_real_world_config
RealWorldSchema ==
    [tags |->
        ("participants" :> [values |->
                <<[literal |-> "0"], [literal |-> "1"], [literal |-> "2"],
                  [literal |-> "3"], [literal |-> "many"]>>]) @@
        ("girls" :> [req |-> ReqParticipants,
           values |->
                <<[literal |-> "0"], [literal |-> "1"], [literal |-> "2"],
                  [literal |-> "3"], [literal |-> "many"]>>]) @@
        ("guys" :> [req |-> ReqParticipantsGirls,
           values |->
                <<[literal |-> "0"], [literal |-> "1"], [literal |-> "2"],
                  [literal |-> "3"], [literal |-> "many"]>>]) @@
        ("action" :> [values |->
                <<[literal |-> "existing"], [literal |-> "dancing"],
                  [literal |-> "climbing"]>>]) @@
        ("dance_style" :> [req |-> ReqAction,
           values |->
                <<[value |-> "shuffle", req |-> ReqGirls],
                  [value |-> "swing", req |-> ReqGirlsPlusGuys],
                  [value |-> "salsa", req |-> ReqGirlsAndGuys],
                  [value |-> "tango", req |-> ReqGirlsGuysGym],
                  [value |-> "breakdance", req |-> ReqGuys]>>]) @@
        ("scene" :> [values |->
                <<[literal |-> "gym"], [literal |-> "office"],
                  [literal |-> "club"]>>])]

TestSchemas == {SimpleSchema, ComplexSchema, RealWorldSchema, RingSchema}

\* a condition that reads the names of S and nothing else
ReqOf(S) ==
    LET names == SelectSeq(<<"a", "b", "c">>, LAMBDA n : n \in S)
    IN IF Len(names) <= 1 THEN names
       ELSE IF Len(names) = 2 THEN <<names[1], " ", names[2]>>
       ELSE <<names[1], " ", names[2], " ", names[3]>>

\* a schema whose tags are the keys of deps; a tag has no req when its set is
\* empty, else a req that reads the names of its set
SchemaOf(deps) ==
    [tags |-> [t \in DOMAIN deps |->
                  IF deps[t] = {} THEN <<>> ELSE [req |-> ReqOf(deps[t])]]]

\* the schemas the ordering and the detection are tried on: one for every
\* map of DepMaps, and the schemas of the tests
Schemas == {SchemaOf(deps) : deps \in DepMaps} \cup TestSchemas

MaxCalls == 2

\* conditions, value lists and tag_info dicts of the schemas the analysis is
\* tried on
ValueReqs ==
    {None, <<>>, <<"b">>, <<"b", " ", "a">>, <<"c", " ", "b", " ", "c">>,
     <<DoubleQuote, "c", DoubleQuote, " ", "o", "r", " ", "a">>}

ValueLists ==
    {<<>>,
     <<[literal |-> "0"], [literal |-> "1"]>>,
     <<[value |-> "x"]>>,
     <<[value |-> "x", req |-> None]>>,
     <<[value |-> "x", req |-> <<"c", " ", "b">>]>>,
     <<[literal |-> "0"], [value |-> "x", req |-> <<"a">>], [value |-> "y"],
       [value |-> "z", req |-> <<"b", " ", "a", " ", "c">>]>>}

TagInfos ==
    {<<>>} \cup {[req |-> r] : r \in ValueReqs}
           \cup {[values |-> v] : v \in ValueLists}
           \cup {[req |-> r, values |-> v] : r \in ValueReqs, v \in ValueLists}

PlainTagInfos ==
    {<<>>, [req |-> <<"a">>], [req |-> <<"b">>],
     [values |-> <<[value |-> "x", req |-> <<"c", " ", "a">>]>>]}

\* a schema without tags, a schema with an empty tags dict, schemas with the
\* tag a, schemas with the tags a and b, and the schemas of the tests
ValueSchemas ==
    {<<>>, [tags |-> <<>>]}
        \cup {[tags |-> ("a" :> i)] : i \in TagInfos}
        \cup {[tags |-> ("a" :> i) @@ ("b" :> j)] : i, j \in PlainTagInfos}
        \cup {SimpleSchema, RingSchema, RealWorldSchema,
              ValueConditionsSchema, OrderingIssueSchema}

\* list(s) for a set s: its elements once each, in any order
ListsOf(S) ==
    {l \in [1..Cardinality(S) -> S] :
        \A p, q \in 1..Cardinality(S) : l[p] = l[q] => p = q}

\* for dep in deps, from index k on: if dep not in seen_deps: append, add
RECURSIVE AppendUnseen(_, _, _)
AppendUnseen(found, deps, k) ==
    IF k >= Len(deps) THEN found
    ELSE IF deps[k + 1] \in Range(found)
         THEN AppendUnseen(found, deps, k + 1)
         ELSE AppendUnseen(Append(found, deps[k + 1]), deps, k + 1)

\* isinstance(value_item, dict)
IsDict(value_item) == "literal" \notin DOMAIN value_item

\* a loop over the values that takes the first condition only
RECURSIVE ValuesLoop_FirstOnly(_, _, _)
ValuesLoop_FirstOnly(values, k, found) ==
    IF k >= Len(values) THEN found
    ELSE IF IsDict(values[k + 1]) /\ "req" \in DOMAIN values[k + 1]
         THEN AppendUnseen(found,
                           ExtractVariablesFromCondition(values[k + 1].req), 0)
         ELSE ValuesLoop_FirstOnly(values, k + 1, found)

\* for value_item in tag_info['values'], from index k on
RECURSIVE ValuesLoop(_, _, _)
ValuesLoop(values, k, found) ==
    IF k >= Len(values) THEN found
    ELSE IF IsDict(values[k + 1]) /\ "req" \in DOMAIN values[k + 1]
         THEN ValuesLoop(values, k + 1,
                  AppendUnseen(found,
                               ExtractVariablesFromCondition(values[k + 1].req), 0))
         ELSE ValuesLoop(values, k + 1, found)

\* the list dependencies of one tag after the two checks of the loop body
TagDependencyList(tag_info) ==
    LET tag_level == IF "req" \in DOMAIN tag_info
                     THEN AppendUnseen(<<>>,
                              ExtractVariablesFromCondition(tag_info.req), 0)
                     ELSE <<>>
    IN IF "values" \in DOMAIN tag_info
       THEN ValuesLoop(tag_info.values, 0, tag_level)
       ELSE tag_level

\* a map that has no entry for a tag without dependencies
TagDependencies_SkipsEmpty(schema) ==
    IF "tags" \notin DOMAIN schema THEN <<>>
    ELSE [tag_name \in {t \in DOMAIN schema.tags :
                            TagDependencyList(schema.tags[t]) # <<>>} |->
             Range(TagDependencyList(schema.tags[tag_name]))]

\* self.tag_dependencies when the method returns: empty without the key
\* tags, else set(dependencies) for every tag
TagDependencies(schema) ==
    IF "tags" \notin DOMAIN schema THEN <<>>
    ELSE [tag_name \in DOMAIN schema.tags |->
             Range(TagDependencyList(schema.tags[tag_name]))]

\* the dicts {tag: list(deps)} over the given keys of the stored map
RECURSIVE ListDicts(_, _)
ListDicts(stored, keys) ==
    IF keys = {} THEN {<<>>}
    ELSE LET tag == CHOOSE t \in keys : TRUE
         IN {(tag :> l) @@ d : l \in ListsOf(stored[tag]),
                               d \in ListDicts(stored, keys \ {tag})}

\* an analysis that keeps the entries of the map it finds
AnalyzeDependenciesOn_KeepsOld(schema) ==
    /\ tag_config' = schema
    /\ tag_dependencies' = TagDependencies(schema) @@ tag_dependencies
    /\ dependencies' \in ListDicts(tag_dependencies', DOMAIN tag_dependencies')
    /\ analyses' = analyses + 1
    /\ pc' = "analyzed"
    /\ UNCHANGED extractVars
    /\ UNCHANGED repeatVars
    /\ UNCHANGED orderVars
    /\ UNCHANGED detectVars

\* analyze_dependencies(schema): the schema and the new map are stored, the
\* map is returned with its sets turned into lists
AnalyzeDependenciesOn(schema) ==
    /\ tag_config' = schema
    /\ tag_dependencies' = TagDependencies(schema)
    /\ dependencies' \in ListDicts(tag_dependencies', DOMAIN tag_dependencies')
    /\ analyses' = analyses + 1
    /\ pc' = "analyzed"
    /\ UNCHANGED extractVars
    /\ UNCHANGED repeatVars
    /\ UNCHANGED orderVars
    /\ UNCHANGED detectVars

\* the first analysis of an engine, before an ordering or a detection
AnalyzeDependencies ==
    /\ pc = "constructed"
    /\ \E schema \in Schemas : AnalyzeDependenciesOn(schema)

\* an analysis of an engine that may hold the map of an earlier analysis
AnalyzeSchema ==
    /\ pc \in {"constructed", "analyzed"}
    /\ analyses < MaxCalls
    /\ \E schema \in ValueSchemas : AnalyzeDependenciesOn(schema)

----------------------------------------------------------------------------
(* get_ordered_tags *)

\* self.tag_dependencies.get(tag_name, set())
DepsOf(deps, tag_name) ==
    IF tag_name \in DOMAIN deps THEN deps[tag_name] ELSE {}

\* a search that answers the list length when dep is not in the list
RECURSIVE IndexFrom_AbsentIsLen(_, _, _)
IndexFrom_AbsentIsLen(ordered, dep, j) ==
    IF j >= Len(ordered) THEN Len(ordered)
    ELSE IF ordered[j + 1] = dep THEN j
    ELSE IndexFrom_AbsentIsLen(ordered, dep, j + 1)

\* inner loop from index j on: the index of the first element equal to dep
\* (the loop breaks there), -1 when the loop ends without a match
RECURSIVE IndexFrom(_, _, _)
IndexFrom(ordered, dep, j) ==
    IF j >= Len(ordered) THEN -1
    ELSE IF ordered[j + 1] = dep THEN j
    ELSE IndexFrom(ordered, dep, j + 1)

\* a search that goes on to the last element equal to dep
IndexOf_LastOccurrence(ordered, dep) ==
    Max[{-1} \cup {j \in 0..(Len(ordered) - 1) : ordered[j + 1] = dep}]

\* for j, check_tag in enumerate(ordered_tags): if check_tag == dep: ... break
IndexOf(ordered, dep) == IndexFrom(ordered, dep, 0)

\* an anchor on the earliest dependency instead of the latest
LatestDepIndex_Earliest(deps, ordered, tag_name) ==
    LET found == {IndexOf(ordered, dep) : dep \in DepsOf(deps, tag_name)} \ {-1}
    IN IF found = {} THEN -1 ELSE Min(found)

\* latest_dep_index after the loop over the dependencies of tag_name
LatestDepIndex(deps, ordered, tag_name) ==
    Max[{-1} \cup {IndexOf(ordered, dep) : dep \in DepsOf(deps, tag_name)}]

\* a test that also moves a tag whose latest dependency is at its own index
NeedsMove_AtOwnIndex(deps, ordered, i) ==
    LatestDepIndex(deps, ordered, ordered[i + 1]) >= i

\* a test that moves every tag with a dependency in the list
NeedsMove_AnyDep(deps, ordered, i) ==
    LatestDepIndex(deps, ordered, ordered[i + 1]) > -1

\* the test that decides a move for the tag at index i
NeedsMove(deps, ordered, i) ==
    LatestDepIndex(deps, ordered, ordered[i + 1]) > i

\* a move that inserts at the adjusted index, in front of the dependency
MoveTag_InsertBefore(ordered, i, latest_dep_index) ==
    LET tag_name == ordered[i + 1]
        adjusted == IF latest_dep_index >= i THEN latest_dep_index - 1
                    ELSE latest_dep_index
    IN Insert(Pop(ordered, i), adjusted, tag_name)

\* a move that inserts without removing the tag first
MoveTag_NoPop(ordered, i, latest_dep_index) ==
    Insert(ordered, latest_dep_index + 1, ordered[i + 1])

\* a move that forgets to adjust the index after the removal
MoveTag_NoAdjust(ordered, i, latest_dep_index) ==
    Insert(Pop(ordered, i), latest_dep_index + 1, ordered[i + 1])

\* a move that exchanges the tag with the dependency
MoveTag_Exchange(ordered, i, latest_dep_index) ==
    [ordered EXCEPT ![i + 1] = ordered[latest_dep_index + 1],
                    ![latest_dep_index + 1] = ordered[i + 1]]

\* pop(i), adjust the index, insert(latest_dep_index + 1, tag_name)
MoveTag(ordered, i, latest_dep_index) ==
    LET tag_name == ordered[i + 1]
        adjusted == IF latest_dep_index >= i THEN latest_dep_index - 1
                    ELSE latest_dep_index
    IN Insert(Pop(ordered, i), adjusted + 1, tag_name)

\* a for loop that goes on with the next index after a move
RECURSIVE ForLoopFrom_NoBreak(_, _, _)
ForLoopFrom_NoBreak(deps, ordered, i) ==
    IF i >= Len(ordered) THEN ordered
    ELSE IF NeedsMove(deps, ordered, i)
         THEN ForLoopFrom_NoBreak(deps,
                  MoveTag(ordered, i, LatestDepIndex(deps, ordered, ordered[i + 1])),
                  i + 1)
         ELSE ForLoopFrom_NoBreak(deps, ordered, i + 1)

\* the for loop from index i on: the first tag that needs a move is moved and
\* the loop breaks; without such a tag the list is left as it is
RECURSIVE ForLoopFrom(_, _, _)
ForLoopFrom(deps, ordered, i) ==
    IF i >= Len(ordered) THEN ordered
    ELSE IF NeedsMove(deps, ordered, i)
         THEN MoveTag(ordered, i, LatestDepIndex(deps, ordered, ordered[i + 1]))
         ELSE ForLoopFrom(deps, ordered, i + 1)

\* the working list after one run of the for loop
ForLoop(deps, ordered) == ForLoopFrom(deps, ordered, 0)

\* an early return without a value
ReturnEmpty_ReturnsNone ==
    /\ pc = "analyzed"
    /\ <<>> \in InputOrders(tag_dependencies)
    /\ tag_order' = <<>>
    /\ result' = None
    /\ pc' = "returned"
    /\ UNCHANGED <<tag_dependencies, ordered_tags, previous_order>>
    /\ UNCHANGED detectVars
    /\ dependencies' = <<>>
    /\ UNCHANGED <<tag_config, analyses>>
    /\ UNCHANGED extractVars
    /\ UNCHANGED repeatVars

\* get_ordered_tags called with an empty list: if not tag_order: return []
ReturnEmpty ==
    /\ pc = "analyzed"
    /\ <<>> \in InputOrders(tag_dependencies)
    /\ tag_order' = <<>>
    /\ result' = <<>>
    /\ pc' = "returned"
    /\ UNCHANGED <<tag_dependencies, ordered_tags, previous_order>>
    /\ UNCHANGED detectVars
    /\ dependencies' = <<>>
    /\ UNCHANGED <<tag_config, analyses>>
    /\ UNCHANGED extractVars
    /\ UNCHANGED repeatVars

\* get_ordered_tags called with a list: ordered_tags = tag_order.copy()
CopyOrder ==
    /\ pc = "analyzed"
    /\ \E order \in InputOrders(tag_dependencies) \ {<<>>} :
          /\ tag_order' = order
          /\ ordered_tags' = order
    /\ pc' = "while"
    /\ UNCHANGED <<tag_dependencies, previous_order, result>>
    /\ UNCHANGED detectVars
    /\ dependencies' = <<>>
    /\ UNCHANGED <<tag_config, analyses>>
    /\ UNCHANGED extractVars
    /\ UNCHANGED repeatVars

\* a while body whose exit test compares with the argument, not the copy
WhilePass_CompareInput ==
    /\ pc = "while"
    /\ previous_order' = ordered_tags
    /\ ordered_tags' = ForLoop(tag_dependencies, ordered_tags)
    /\ IF ordered_tags' = tag_order
       THEN /\ pc' = "returned"
            /\ result' = ordered_tags'
       ELSE /\ pc' = "while"
            /\ result' = result
    /\ UNCHANGED <<tag_dependencies, tag_order>>
    /\ UNCHANGED detectVars
    /\ UNCHANGED <<tag_config, dependencies, analyses>>
    /\ UNCHANGED extractVars
    /\ UNCHANGED repeatVars

\* a while body that works on the caller's list, not on a copy of it
WhilePass_NoCopy ==
    /\ pc = "while"
    /\ previous_order' = ordered_tags
    /\ ordered_tags' = ForLoop(tag_dependencies, ordered_tags)
    /\ tag_order' = ordered_tags'
    /\ IF ordered_tags' = previous_order'
       THEN /\ pc' = "returned"
            /\ result' = ordered_tags'
       ELSE /\ pc' = "while"
            /\ result' = result
    /\ UNCHANGED tag_dependencies
    /\ UNCHANGED detectVars
    /\ UNCHANGED <<tag_config, dependencies, analyses>>
    /\ UNCHANGED extractVars
    /\ UNCHANGED repeatVars

\* one run of the while body: copy, for loop, exit test, return on exit
WhilePass ==
    /\ pc = "while"
    /\ previous_order' = ordered_tags
    /\ ordered_tags' = ForLoop(tag_dependencies, ordered_tags)
    /\ IF ordered_tags' = previous_order'
       THEN /\ pc' = "returned"
            /\ result' = ordered_tags'
       ELSE /\ pc' = "while"
            /\ result' = result
    /\ UNCHANGED <<tag_dependencies, tag_order>>
    /\ UNCHANGED detectVars
    /\ UNCHANGED <<tag_config, dependencies, analyses>>
    /\ UNCHANGED extractVars
    /\ UNCHANGED repeatVars

----------------------------------------------------------------------------
(* detect_circular_dependencies *)

\* every order in which the keys of a dict can have been inserted
KeyOrders(S) ==
    {s \in [1..Cardinality(S) -> S] : \A p, q \in 1..Cardinality(S) : s[p] = s[q] => p = q}

\* path.index(tag_name): index of the first occurrence, -1 stands for ValueError
PathIndex(path, tag_name) == IndexOf(path, tag_name)

Top == frames[Len(frames)]

\* a return to a caller that shares its path list with the call it made
PopFrame_SharedPath ==
    /\ frames' = IF Len(frames) = 1 THEN <<>>
                 ELSE [SubSeq(frames, 1, Len(frames) - 1)
                          EXCEPT ![Len(frames) - 1].path = Top.path]
    /\ pc' = IF Len(frames) = 1 THEN "outer" ELSE "dfs"

\* return from the innermost dfs call
PopFrame ==
    /\ frames' = SubSeq(frames, 1, Len(frames) - 1)
    /\ pc' = IF Len(frames) = 1 THEN "outer" ELSE "dfs"

\* cycles = [], visited = set(), rec_stack = set(); the outer loop takes the
\* keys in the dict's insertion order
DetectCall ==
    /\ pc = "analyzed"
    /\ cycles' = <<>>
    /\ visited' = {}
    /\ rec_stack' = {}
    /\ frames' = <<>>
    /\ keys_todo' \in KeyOrders(DOMAIN tag_dependencies)
    /\ pc' = "outer"
    /\ UNCHANGED tag_dependencies
    /\ UNCHANGED orderVars
    /\ dependencies' = <<>>
    /\ UNCHANGED <<tag_config, analyses>>
    /\ UNCHANGED extractVars
    /\ UNCHANGED repeatVars

\* outer loop: if tag_name not in visited: dfs(tag_name, [])
OuterVisit ==
    /\ pc = "outer"
    /\ keys_todo # <<>>
    /\ Head(keys_todo) \notin visited
    /\ frames' = <<[tag_name |-> Head(keys_todo), path |-> <<>>,
                    todo |-> {}, at |-> "entry"]>>
    /\ keys_todo' = Tail(keys_todo)
    /\ pc' = "dfs"
    /\ UNCHANGED <<tag_dependencies, cycles, visited, rec_stack>>
    /\ UNCHANGED orderVars
    /\ UNCHANGED <<tag_config, dependencies, analyses>>
    /\ UNCHANGED extractVars
    /\ UNCHANGED repeatVars

\* outer loop: a key already visited is passed over
OuterSkip ==
    /\ pc = "outer"
    /\ keys_todo # <<>>
    /\ Head(keys_todo) \in visited
    /\ keys_todo' = Tail(keys_todo)
    /\ UNCHANGED <<tag_dependencies, cycles, visited, rec_stack, frames, pc>>
    /\ UNCHANGED orderVars
    /\ UNCHANGED <<tag_config, dependencies, analyses>>
    /\ UNCHANGED extractVars
    /\ UNCHANGED repeatVars

\* return cycles
OuterReturn ==
    /\ pc = "outer"
    /\ keys_todo = <<>>
    /\ pc' = "detected"
    /\ UNCHANGED <<tag_dependencies, cycles, visited, rec_stack, frames, keys_todo>>
    /\ UNCHANGED orderVars
    /\ UNCHANGED <<tag_config, dependencies, analyses>>
    /\ UNCHANGED extractVars
    /\ UNCHANGED repeatVars

\* a dfs that tests the visited set before the recursion stack
EntryCase_VisitedFirst(tag_name) ==
    IF tag_name \in visited THEN "visited"
    ELSE IF tag_name \in rec_stack THEN "cycle"
    ELSE "new"

\* the tests at the entry of dfs, in their order
EntryCase(tag_name) ==
    IF tag_name \in rec_stack THEN "cycle"
    ELSE IF tag_name \in visited THEN "visited"
    ELSE "new"

\* a dfs that records the whole path instead of the part from cycle_start on
DfsCycle_WholePath ==
    /\ pc = "dfs"
    /\ Top.at = "entry"
    /\ EntryCase(Top.tag_name) = "cycle"
    /\ cycles' = Append(cycles, Top.path \o <<Top.tag_name>>)
    /\ PopFrame
    /\ UNCHANGED <<tag_dependencies, visited, rec_stack, keys_todo>>
    /\ UNCHANGED orderVars
    /\ UNCHANGED <<tag_config, dependencies, analyses>>
    /\ UNCHANGED extractVars
    /\ UNCHANGED repeatVars

\* dfs entry, tag_name in rec_stack: record path[cycle_start:] + [tag_name]
DfsCycle ==
    /\ pc = "dfs"
    /\ Top.at = "entry"
    /\ EntryCase(Top.tag_name) = "cycle"
    /\ LET cycle_start == PathIndex(Top.path, Top.tag_name)
       IN IF cycle_start = -1
          THEN /\ pc' = "raised"
               /\ UNCHANGED <<cycles, frames>>
          ELSE /\ cycles' = Append(cycles,
                     SubSeq(Top.path, cycle_start + 1, Len(Top.path))
                       \o <<Top.tag_name>>)
               /\ PopFrame
    /\ UNCHANGED <<tag_dependencies, visited, rec_stack, keys_todo>>
    /\ UNCHANGED orderVars
    /\ UNCHANGED <<tag_config, dependencies, analyses>>
    /\ UNCHANGED extractVars
    /\ UNCHANGED repeatVars

\* dfs entry, tag_name in visited: return
DfsVisited ==
    /\ pc = "dfs"
    /\ Top.at = "entry"
    /\ EntryCase(Top.tag_name) = "visited"
    /\ PopFrame
    /\ UNCHANGED <<tag_dependencies, cycles, visited, rec_stack, keys_todo>>
    /\ UNCHANGED orderVars
    /\ UNCHANGED <<tag_config, dependencies, analyses>>
    /\ UNCHANGED extractVars
    /\ UNCHANGED repeatVars

\* a dfs that does not add the tag to the visited set
DfsExpand_NoVisited ==
    /\ pc = "dfs"
    /\ Top.at = "entry"
    /\ EntryCase(Top.tag_name) = "new"
    /\ rec_stack' = rec_stack \cup {Top.tag_name}
    /\ frames' = [frames EXCEPT ![Len(frames)] =
                    [tag_name |-> Top.tag_name,
                     path |-> Append(Top.path, Top.tag_name),
                     todo |-> DepsOf(tag_dependencies, Top.tag_name),
                     at |-> "loop"]]
    /\ UNCHANGED <<tag_dependencies, cycles, visited, keys_todo, pc>>
    /\ UNCHANGED orderVars
    /\ UNCHANGED <<tag_config, dependencies, analyses>>
    /\ UNCHANGED extractVars
    /\ UNCHANGED repeatVars

\* dfs entry, new tag: mark it, extend the path, start the loop over its deps
DfsExpand ==
    /\ pc = "dfs"
    /\ Top.at = "entry"
    /\ EntryCase(Top.tag_name) = "new"
    /\ visited' = visited \cup {Top.tag_name}
    /\ rec_stack' = rec_stack \cup {Top.tag_name}
    /\ frames' = [frames EXCEPT ![Len(frames)] =
                    [tag_name |-> Top.tag_name,
                     path |-> Append(Top.path, Top.tag_name),
                     todo |-> DepsOf(tag_dependencies, Top.tag_name),
                     at |-> "loop"]]
    /\ UNCHANGED <<tag_dependencies, cycles, keys_todo, pc>>
    /\ UNCHANGED orderVars
    /\ UNCHANGED <<tag_config, dependencies, analyses>>
    /\ UNCHANGED extractVars
    /\ UNCHANGED repeatVars

\* for dep in ...: dfs(dep, path.copy()); a set is iterated in any order
DfsRecurse ==
    /\ pc = "dfs"
    /\ Top.at = "loop"
    /\ \E dep \in Top.todo :
          frames' = Append([frames EXCEPT ![Len(frames)].todo = Top.todo \ {dep}],
                           [tag_name |-> dep, path |-> Top.path,
                            todo |-> {}, at |-> "entry"])
    /\ UNCHANGED <<tag_dependencies, cycles, visited, rec_stack, keys_todo, pc>>
    /\ UNCHANGED orderVars
    /\ UNCHANGED <<tag_config, dependencies, analyses>>
    /\ UNCHANGED extractVars
    /\ UNCHANGED repeatVars

\* a return that leaves the tag on the recursion stack
DfsReturn_KeepStack ==
    /\ pc = "dfs"
    /\ Top.at = "loop"
    /\ Top.todo = {}
    /\ PopFrame
    /\ UNCHANGED <<tag_dependencies, cycles, visited, rec_stack, keys_todo>>
    /\ UNCHANGED orderVars
    /\ UNCHANGED <<tag_config, dependencies, analyses>>
    /\ UNCHANGED extractVars
    /\ UNCHANGED repeatVars

\* a return that takes the tag out of the visited set as well
DfsReturn_Unvisits ==
    /\ pc = "dfs"
    /\ Top.at = "loop"
    /\ Top.todo = {}
    /\ rec_stack' = rec_stack \ {Top.tag_name}
    /\ visited' = visited \ {Top.tag_name}
    /\ PopFrame
    /\ UNCHANGED <<tag_dependencies, cycles, keys_todo>>
    /\ UNCHANGED orderVars
    /\ UNCHANGED <<tag_config, dependencies, analyses>>
    /\ UNCHANGED extractVars
    /\ UNCHANGED repeatVars

\* loop over the deps finished: rec_stack.remove(tag_name), return
DfsReturn ==
    /\ pc = "dfs"
    /\ Top.at = "loop"
    /\ Top.todo = {}
    /\ rec_stack' = rec_stack \ {Top.tag_name}
    /\ PopFrame
    /\ UNCHANGED <<tag_dependencies, cycles, visited, keys_todo>>
    /\ UNCHANGED orderVars
    /\ UNCHANGED <<tag_config, dependencies, analyses>>
    /\ UNCHANGED extractVars
    /\ UNCHANGED repeatVars

----------------------------------------------------------------------------
(* The same call made twice on one engine *)

(* A caller analyses a schema and then makes the same call twice, with the  *)
(* same list object as argument.  The stored dict and the stored sets are   *)
(* Python objects: while they are not modified, each of them yields its     *)
(* elements in one order, which iteration holds.                            *)

\* the schemas the repeated calls are tried on: one for every map of DepMaps
RepeatSchemas == {SchemaOf(deps) : deps \in DepMaps}

\* the analysis before the two calls
AnalyzeForRepeat ==
    /\ pc = "constructed"
    /\ \E schema \in RepeatSchemas : AnalyzeDependenciesOn(schema)

\* the first detect_circular_dependencies call; the stored sets yield their
\* names in the order they had in list(deps) at the end of the analysis,
\* the stored dict its keys in the order of their insertion
DetectCallFirst ==
    /\ pc = "analyzed"
    /\ iteration' \in [keys : KeyOrders(DOMAIN tag_dependencies),
                       sets : {dependencies}]
    /\ cycles' = <<>>
    /\ visited' = {}
    /\ rec_stack' = {}
    /\ frames' = <<>>
    /\ keys_todo' = iteration'.keys
    /\ pc' = "outer"
    /\ dependencies' = <<>>
    /\ UNCHANGED <<tag_config, tag_dependencies, analyses, first_result>>
    /\ UNCHANGED extractVars
    /\ UNCHANGED orderVars

\* for dep in ...: the set yields its names in its order
DfsRecurseInOrder ==
    /\ DfsRecurse
    /\ LET order == iteration.sets[Top.tag_name]
       IN frames'[Len(frames')].tag_name
            = order[Len(order) - Cardinality(Top.todo) + 1]

\* the caller keeps the returned cycles and calls again: cycles, visited
\* and rec_stack are new objects, the dict yields its keys as before
DetectAgain ==
    /\ pc = "detected"
    /\ first_result = None
    /\ first_result' = cycles
    /\ cycles' = <<>>
    /\ visited' = {}
    /\ rec_stack' = {}
    /\ frames' = <<>>
    /\ keys_todo' = iteration.keys
    /\ pc' = "outer"
    /\ UNCHANGED <<tag_config, tag_dependencies, dependencies, analyses, iteration>>
    /\ UNCHANGED extractVars
    /\ UNCHANGED orderVars

\* the caller keeps the returned list and calls get_ordered_tags again with
\* the list it passed before
OrderAgain ==
    /\ pc = "returned"
    /\ first_result = None
    /\ first_result' = result
    /\ IF tag_order = <<>>
       THEN /\ result' = <<>>
            /\ pc' = "returned"
            /\ UNCHANGED ordered_tags
       ELSE /\ ordered_tags' = tag_order
            /\ pc' = "while"
            /\ UNCHANGED result
    /\ UNCHANGED <<tag_order, previous_order, iteration>>
    /\ UNCHANGED <<tag_config, tag_dependencies, dependencies, analyses>>
    /\ UNCHANGED extractVars
    /\ UNCHANGED detectVars

----------------------------------------------------------------------------
(* get_ordered_tags with the iteration of the dependency sets written out *)

\* the names a stored set yields, in its order; no names for a tag that is
\* no key of the map
YieldedBy(sets, tag_name) ==
    IF tag_name \in DOMAIN sets THEN sets[tag_name] ELSE <<>>

\* a loop that keeps the index of the dependency found last
RECURSIVE LatestDepIndexFrom_LastFound(_, _, _, _)
LatestDepIndexFrom_LastFound(yielded, ordered, k, latest_dep_index) ==
    IF k >= Len(yielded) THEN latest_dep_index
    ELSE LatestDepIndexFrom_LastFound(yielded, ordered, k + 1,
             IF IndexOf(ordered, yielded[k + 1]) = -1 THEN latest_dep_index
             ELSE IndexOf(ordered, yielded[k + 1]))

\* for dep in dependencies, from the k-th yielded name on: the inner loop
\* finds the first index of dep, latest_dep_index = max(latest_dep_index, j)
RECURSIVE LatestDepIndexFrom(_, _, _, _)
LatestDepIndexFrom(yielded, ordered, k, latest_dep_index) ==
    IF k >= Len(yielded) THEN latest_dep_index
    ELSE LatestDepIndexFrom(yielded, ordered, k + 1,
             IF IndexOf(ordered, yielded[k + 1]) = -1 THEN latest_dep_index
             ELSE Max[{latest_dep_index, IndexOf(ordered, yielded[k + 1])}])

\* the for loop over the working list from index i on, the sets yielding
\* their names as given
RECURSIVE ForLoopInOrderFrom(_, _, _)
ForLoopInOrderFrom(sets, ordered, i) ==
    IF i >= Len(ordered) THEN ordered
    ELSE IF LatestDepIndexFrom(YieldedBy(sets, ordered[i + 1]), ordered, 0, -1) > i
         THEN MoveTag(ordered, i,
                  LatestDepIndexFrom(YieldedBy(sets, ordered[i + 1]), ordered, 0, -1))
         ELSE ForLoopInOrderFrom(sets, ordered, i + 1)

ForLoopInOrder(sets, ordered) == ForLoopInOrderFrom(sets, ordered, 0)

\* the schemas the written-out iteration is tried on: one for every map of
\* DepMaps in which a and b are the tags with a condition
IterateSchemas ==
    {SchemaOf(deps) : deps \in {d \in DepMaps : DOMAIN d \subseteq {"a", "b"}}}

\* the analysis before the ordering
AnalyzeForIterate ==
    /\ pc = "constructed"
    /\ \E schema \in IterateSchemas : AnalyzeDependenciesOn(schema)

\* get_ordered_tags called with a list; the stored sets yield their names
\* in the order they had in list(deps) at the end of the analysis
CopyOrderFirst ==
    /\ pc = "analyzed"
    /\ \E order \in InputOrders(tag_dependencies) \ {<<>>} :
          /\ tag_order' = order
          /\ ordered_tags' = order
    /\ iteration' = [sets |-> dependencies]
    /\ pc' = "while"
    /\ dependencies' = <<>>
    /\ UNCHANGED <<tag_config, tag_dependencies, analyses, first_result>>
    /\ UNCHANGED <<previous_order, result>>
    /\ UNCHANGED extractVars
    /\ UNCHANGED detectVars

\* one run of the while body, the sets yielding their names in their order
WhilePassInOrder ==
    /\ pc = "while"
    /\ previous_order' = ordered_tags
    /\ ordered_tags' = ForLoopInOrder(iteration.sets, ordered_tags)
    /\ IF ordered_tags' = previous_order'
       THEN /\ pc' = "returned"
            /\ result' = ordered_tags'
       ELSE /\ pc' = "while"
            /\ result' = result
    /\ UNCHANGED <<tag_dependencies, tag_order>>
    /\ UNCHANGED detectVars
    /\ UNCHANGED <<tag_config, dependencies, analyses>>
    /\ UNCHANGED extractVars
    /\ UNCHANGED repeatVars

----------------------------------------------------------------------------
(* TagRegistry.get_tag_config *)

(* The registry owns one engine (self.dependency_manager).  The local       *)
(* tag_order of get_tag_config is the list it hands to get_ordered_tags.    *)

\* the configs yaml.safe_load gives: a config without the key tags, one for
\* every map of DepMaps, and the configs of two tests
RegistryConfigs ==
    {<<>>} \cup {SchemaOf(deps) : deps \in DepMaps} \cup {SimpleSchema, RingSchema}

\* config without the key tags: the config is returned as it was loaded
GetTagConfigNoTags ==
    /\ pc = "constructed"
    /\ \E config \in RegistryConfigs : "tags" \notin DOMAIN config
    /\ pc' = "config_returned"
    /\ UNCHANGED <<tag_config, tag_dependencies, dependencies, analyses>>
    /\ UNCHANGED extractVars
    /\ UNCHANGED repeatVars
    /\ UNCHANGED orderVars
    /\ UNCHANGED detectVars

\* tag_order = list(config['tags'].keys()), the keys in the order of the
\* file; dependencies = self.dependency_manager.analyze_dependencies(config)
GetTagConfigAnalyze ==
    /\ pc = "constructed"
    /\ \E config \in RegistryConfigs :
          /\ "tags" \in DOMAIN config
          /\ tag_order' \in KeyOrders(DOMAIN config.tags)
          /\ tag_config' = config
          /\ tag_dependencies' = TagDependencies(config)
          /\ dependencies' \in ListDicts(tag_dependencies', DOMAIN tag_dependencies')
    /\ analyses' = analyses + 1
    /\ pc' = "config_analyzed"
    /\ UNCHANGED <<ordered_tags, previous_order, result>>
    /\ UNCHANGED extractVars
    /\ UNCHANGED repeatVars
    /\ UNCHANGED detectVars

\* ordered_tags = self.dependency_manager.get_ordered_tags(tag_order), the
\* statement after the analysis: the call starts
GetTagConfigOrder ==
    /\ pc = "config_analyzed"
    /\ IF tag_order = <<>>
       THEN /\ result' = <<>>
            /\ pc' = "returned"
            /\ UNCHANGED ordered_tags
       ELSE /\ ordered_tags' = tag_order
            /\ pc' = "while"
            /\ UNCHANGED result
    /\ UNCHANGED <<tag_order, previous_order>>
    /\ UNCHANGED <<tag_config, tag_dependencies, dependencies, analyses>>
    /\ UNCHANGED extractVars
    /\ UNCHANGED repeatVars
    /\ UNCHANGED detectVars

\* the ordering has returned: the lists are put into the config and the
\* config is returned
GetTagConfigReturn ==
    /\ pc = "returned"
    /\ pc' = "config_returned"
    /\ UNCHANGED <<tag_config, tag_dependencies, dependencies, analyses>>
    /\ UNCHANGED extractVars
    /\ UNCHANGED repeatVars
    /\ UNCHANGED orderVars
    /\ UNCHANGED detectVars

----------------------------------------------------------------------------
(* Specifications *)

\* __init__: self.tag_dependencies = {}
Init ==
    /\ tag_config = <<>>
    /\ tag_dependencies = <<>>
    /\ dependencies = <<>>
    /\ analyses = 0
    /\ condition = <<>>
    /\ variables = <<>>
    /\ tag_order = <<>>
    /\ ordered_tags = <<>>
    /\ previous_order = <<>>
    /\ result = <<>>
    /\ pc = "constructed"
    /\ cycles = <<>>
    /\ visited = {}
    /\ rec_stack = {}
    /\ frames = <<>>
    /\ keys_todo = <<>>
    /\ first_result = None
    /\ iteration = <<>>

\* analyze_dependencies, then one call of get_ordered_tags
Next == AnalyzeDependencies \/ ReturnEmpty \/ CopyOrder \/ WhilePass

Spec == Init /\ [][Next]_vars

\* the interpreter keeps running the loop of a call that has been made
FairSpec == Spec /\ WF_vars(WhilePass)

\* analyze_dependencies, then one call of detect_circular_dependencies
NextDetect ==
    \/ AnalyzeDependencies
    \/ DetectCall
    \/ OuterVisit
    \/ OuterSkip
    \/ OuterReturn
    \/ DfsCycle
    \/ DfsVisited
    \/ DfsExpand
    \/ DfsRecurse
    \/ DfsReturn

SpecDetect == Init /\ [][NextDetect]_vars

\* the steps of a detection that has been called
DetectSteps ==
    \/ OuterVisit
    \/ OuterSkip
    \/ OuterReturn
    \/ DfsCycle
    \/ DfsVisited
    \/ DfsExpand
    \/ DfsRecurse
    \/ DfsReturn

\* the interpreter keeps running a detection that has been called
FairSpecDetect == SpecDetect /\ WF_vars(DetectSteps)

\* analyses one after the other, then one ordering or one detection
NextAnalyze ==
    \/ AnalyzeSchema
    \/ ReturnEmpty
    \/ CopyOrder
    \/ WhilePass
    \/ DetectCall
    \/ OuterVisit
    \/ OuterSkip
    \/ OuterReturn
    \/ DfsCycle
    \/ DfsVisited
    \/ DfsExpand
    \/ DfsRecurse
    \/ DfsReturn

SpecAnalyze == Init /\ [][NextAnalyze]_vars

\* calls of _extract_variables_from_condition
NextExtract == ExtractVariables

SpecExtract == Init /\ [][NextExtract]_vars

\* one call of TagRegistry.get_tag_config
NextRegistry ==
    \/ GetTagConfigNoTags
    \/ GetTagConfigAnalyze
    \/ GetTagConfigOrder
    \/ WhilePass
    \/ GetTagConfigReturn

SpecRegistry == Init /\ [][NextRegistry]_vars

\* an analysis, then the same ordering twice or the same detection twice
NextRepeat ==
    \/ AnalyzeForRepeat
    \/ ReturnEmpty
    \/ CopyOrder
    \/ WhilePass
    \/ OrderAgain
    \/ DetectCallFirst
    \/ OuterVisit
    \/ OuterSkip
    \/ OuterReturn
    \/ DfsCycle
    \/ DfsVisited
    \/ DfsExpand
    \/ DfsRecurseInOrder
    \/ DfsReturn
    \/ DetectAgain

SpecRepeat == Init /\ [][NextRepeat]_vars

\* an analysis, then one ordering in which every stored set yields its
\* names in an order of its own
NextIterate == AnalyzeForIterate \/ ReturnEmpty \/ CopyOrderFirst \/ WhilePassInOrder

SpecIterate == Init /\ [][NextIterate]_vars

----------------------------------------------------------------------------
(* Vocabulary of the properties *)

NoDup(l) == \A p, q \in 1..Len(l) : l[p] = l[q] => p = q

Count(l, x) == Cardinality({k \in 1..Len(l) : l[k] = x})

IsPermutation(l, m) ==
    /\ Len(l) = Len(m)
    /\ \A x \in Range(l) \cup Range(m) : Count(l, x) = Count(m, x)

\* every tag of l sits at or after each of its dependencies that occurs in l
Satisfied(deps, l) ==
    \A p, q \in 1..Len(l) : l[q] \in DepsOf(deps, l[p]) => q <= p

\* l without the occurrences of x
Without(l, x) == SelectSeq(l, LAMBDA e : e # x)

Successors(deps, S) == UNION {DepsOf(deps, x) : x \in S}

RECURSIVE Closure(_, _)
Closure(deps, S) ==
    LET T == S \cup Successors(deps, S)
    IN IF T = S THEN S ELSE Closure(deps, T)

\* the names reached from x by one or more dependency edges
Reach(deps, x) == Closure(deps, DepsOf(deps, x))

HasCycle(deps) == \E x \in DOMAIN deps : x \in Reach(deps, x)

\* the keys form one ring: one dependency each, all keys on the same loop
IsRing(deps) ==
    /\ DOMAIN deps # {}
    /\ \A x \in DOMAIN deps : Cardinality(deps[x]) = 1 /\ deps[x] \subseteq DOMAIN deps
    /\ \A x \in DOMAIN deps : Reach(deps, x) = DOMAIN deps

\* the dependency sets with the names that are not in l taken out
Restrict(deps, l) == [t \in DOMAIN deps |-> deps[t] \cap Range(l)]

\* positions of l whose tag has a non-empty dependency set
TagsWithDeps(deps, l) == {k \in 1..Len(l) : DepsOf(deps, l[k]) # {}}

\* positions of l that hold a dependency of the tag at position k
DepPositions(deps, l, k) == {q \in 1..Len(l) : l[q] \in DepsOf(deps, l[k])}

----------------------------------------------------------------------------
(* Properties *)

\* C1: when get_ordered_tags returns for a duplicate-free tag_order, every
\* dependency of a tag of the result that occurs in the result sits at an
\* index less than or equal to the index of the tag.
C1_ResultRespectsDependencies ==
    (pc = "returned" /\ NoDup(tag_order)) =>
        \A p, q \in 1..Len(result) :
            result[q] \in DepsOf(tag_dependencies, result[p]) => q <= p

C1_Witness ==
    /\ pc = "returned"
    /\ NoDup(tag_order)
    /\ result # tag_order
    /\ \E p, q \in 1..Len(result) :
          q < p /\ result[q] \in DepsOf(tag_dependencies, result[p])

\* C2: the working list is a permutation of tag_order after every move and
\* the returned list is a permutation of tag_order.
C2_WorkingListIsPermutation ==
    /\ pc = "while" => IsPermutation(ordered_tags, tag_order)
    /\ pc = "returned" => IsPermutation(result, tag_order)

C2_Witness ==
    /\ pc = "while"
    /\ ordered_tags # tag_order
    /\ ~NoDup(tag_order)

\* C3: for a duplicate-free tag_order and a map without a dependency cycle
\* the call returns.
C3_TerminatesOnAcyclic ==
    (pc = "while" /\ NoDup(tag_order) /\ ~HasCycle(tag_dependencies))
        ~> (pc = "returned")

C3_Witness ==
    /\ pc = "returned"
    /\ NoDup(tag_order)
    /\ ~HasCycle(tag_dependencies)
    /\ Len(result) = 3
    /\ result[1] \in DepsOf(tag_dependencies, result[2])
    /\ result[2] \in DepsOf(tag_dependencies, result[3])
    /\ result[1] = tag_order[3]
    /\ result[3] = tag_order[1]

\* C4: the call returns for every tag_order and every map, a map with a
\* dependency cycle included.
C4_TerminatesOnEveryInput == (pc = "while") ~> (pc = "returned")

\* C5: a tag_order in which every tag sits at or after all of its listed
\* dependencies is returned unchanged.
C5_NoSpuriousMovement ==
    (pc = "returned" /\ Satisfied(tag_dependencies, tag_order)) =>
        result = tag_order

C5_Witness ==
    /\ pc = "returned"
    /\ Satisfied(tag_dependencies, tag_order)
    /\ Len(tag_order) = 3
    /\ tag_order[1] \in DepsOf(tag_dependencies, tag_order[3])
    /\ tag_order[1] # tag_order[3]

C7_RealWorldOrder ==
    (pc = "returned" /\ tag_dependencies = RealWorldDeps /\ tag_order = YamlOrder) =>
        result = <<"participants", "girls", "guys", "action", "scene", "dance_style">>

C7_Witness ==
    /\ pc = "returned"
    /\ tag_dependencies = RealWorldDeps
    /\ tag_order = YamlOrder
    /\ result[6] = "dance_style"

\* C8: names that do not occur in tag_order impose no constraint: every pass
\* gives the list it would give with those names taken out of the dependency
\* sets, and a tag that passes the move test has a dependency that occurs in
\* tag_order.
C8_AbsentNamesIgnored ==
    pc = "while" =>
        /\ ForLoop(tag_dependencies, ordered_tags)
             = ForLoop(Restrict(tag_dependencies, tag_order), ordered_tags)
        /\ \A i \in 0..(Len(ordered_tags) - 1) :
              NeedsMove(tag_dependencies, ordered_tags, i) =>
                 DepsOf(tag_dependencies, ordered_tags[i + 1]) \cap Range(tag_order) # {}

C8_Witness ==
    /\ pc = "while"
    /\ NeedsMove(tag_dependencies, ordered_tags, 0)
    /\ ~(DepsOf(tag_dependencies, ordered_tags[1]) \subseteq Range(tag_order))
    /\ \E k \in 2..Len(ordered_tags) :
          /\ DepsOf(tag_dependencies, ordered_tags[k]) # {}
          /\ DepsOf(tag_dependencies, ordered_tags[k]) \cap Range(tag_order) = {}

\* C9: on a map without a dependency cycle detect_circular_dependencies
\* finds no cycle and returns the empty list, also when dependencies name
\* tags that are not keys of the map.
C9_AcyclicGivesNoCycle ==
    ~HasCycle(tag_dependencies) => (cycles = <<>> /\ pc # "raised")

C9_Witness ==
    /\ pc = "detected"
    /\ ~HasCycle(tag_dependencies)
    /\ cycles = <<>>
    /\ \E x, y \in DOMAIN tag_dependencies :
          /\ x # y
          /\ y \in tag_dependencies[x]
          /\ \E z \in tag_dependencies[x] \cap tag_dependencies[y] :
                z \notin DOMAIN tag_dependencies

\* C10: on a map with a dependency cycle detect_circular_dependencies returns
\* a non-empty list, and when the tags form a single ring one returned cycle
\* contains every tag of the ring, whichever key the traversal starts from.
C10_CycleIsReported ==
    pc = "detected" =>
        /\ HasCycle(tag_dependencies) => cycles # <<>>
        /\ IsRing(tag_dependencies) =>
              \E k \in 1..Len(cycles) : DOMAIN tag_dependencies \subseteq Range(cycles[k])

C10_Witness ==
    /\ pc = "detected"
    /\ IsRing(tag_dependencies)
    /\ Cardinality(DOMAIN tag_dependencies) = 3
    /\ Len(cycles) = 1
    /\ Len(cycles[1]) = 4

\* C11: every cycle recorded by detect_circular_dependencies has at least two
\* elements, ends with its first element, has pairwise distinct elements
\* before the last, and each element is followed by one of the names in its
\* stored dependency set.
C11_CycleIsClosedLoop ==
    \A k \in 1..Len(cycles) :
        LET cycle == cycles[k]
        IN /\ Len(cycle) >= 2
           /\ cycle[Len(cycle)] = cycle[1]
           /\ NoDup(SubSeq(cycle, 1, Len(cycle) - 1))
           /\ \A p \in 1..(Len(cycle) - 1) :
                 cycle[p + 1] \in DepsOf(tag_dependencies, cycle[p])

C11_Witness ==
    /\ pc = "detected"
    /\ Len(cycles) = 2
    /\ Len(cycles[1]) = 3
    /\ Len(cycles[2]) = 2
    /\ cycles[1][1] \notin Range(cycles[2])
    /\ \E x \in DOMAIN tag_dependencies : x \notin Range(cycles[1]) \cup Range(cycles[2])

\* a step in which the innermost dfs call starts the loop over the
\* dependencies of its tag
ExpandsTag ==
    /\ pc = "dfs"
    /\ Top.at = "entry"
    /\ Len(frames') = Len(frames)
    /\ frames'[Len(frames)].at = "loop"

\* an expansion takes a tag that is not in the visited set and puts it there
ExpandsUnvisited ==
    ExpandsTag =>
        (Top.tag_name \notin visited /\ visited' = visited \cup {Top.tag_name})

\* no step of the call takes a name out of the visited set
VisitedGrows == pc \in {"outer", "dfs"} => visited \subseteq visited'

\* C12: detect_circular_dependencies returns on every map, with or without
\* cycles, and raises nothing; a tag whose dependencies are iterated was not
\* in the visited set and is put into it, and the visited set never loses a
\* name during the call, so each tag is expanded at most once.
C12_DetectTerminates ==
    /\ [](pc # "raised")
    /\ (pc = "outer") ~> (pc = "detected")
    /\ [][ExpandsUnvisited]_vars
    /\ [][VisitedGrows]_vars

C12_Witness ==
    /\ pc = "dfs"
    /\ Top.at = "entry"
    /\ EntryCase(Top.tag_name) = "visited"
    /\ cycles # <<>>
    /\ Len(frames) = 3

\* the dependency sets without the tag's own name
WithoutSelf(deps) == [t \in DOMAIN deps |-> deps[t] \ {t}]

\* a tag names itself, and no cycle is left when the tags' own names are
\* taken out of their sets
SelfReferenceOnly(deps) ==
    /\ \E t \in DOMAIN deps : t \in deps[t]
    /\ ~HasCycle(WithoutSelf(deps))

\* the schemas of the maps in which a tag names itself and nothing else
\* makes a cycle
SelfSchemas == {SchemaOf(deps) : deps \in {d \in DepMaps : SelfReferenceOnly(d)}}

\* the analysis of a schema in which a tag names itself
AnalyzeSelfReferencing ==
    /\ pc = "constructed"
    /\ \E schema \in SelfSchemas : AnalyzeDependenciesOn(schema)

\* the analysis of a self-referencing schema, then one ordering or one
\* detection
NextSelf ==
    \/ AnalyzeSelfReferencing
    \/ ReturnEmpty
    \/ CopyOrder
    \/ WhilePass
    \/ DetectCall
    \/ OuterVisit
    \/ OuterSkip
    \/ OuterReturn
    \/ DfsCycle
    \/ DfsVisited
    \/ DfsExpand
    \/ DfsRecurse
    \/ DfsReturn

SpecSelf == Init /\ [][NextSelf]_vars

\* the interpreter keeps running the call that has been made
FairSpecSelf == SpecSelf /\ WF_vars(WhilePass) /\ WF_vars(DetectSteps)

\* C13: on a map whose only cycles are tags that name themselves,
\* get_ordered_tags returns, every pass gives the list it would give with
\* the tags' own names taken out of their sets (a tag's own name never makes
\* it move), and detect_circular_dependencies returns and raises nothing.
C13_SelfReferenceTolerated ==
    /\ (pc = "while" /\ SelfReferenceOnly(tag_dependencies)) ~> (pc = "returned")
    /\ []((pc = "while" /\ SelfReferenceOnly(tag_dependencies)) =>
             ForLoop(tag_dependencies, ordered_tags)
               = ForLoop(WithoutSelf(tag_dependencies), ordered_tags))
    /\ (pc = "outer" /\ SelfReferenceOnly(tag_dependencies)) ~> (pc = "detected")
    /\ [](SelfReferenceOnly(tag_dependencies) => pc # "raised")

C13_Witness ==
    /\ pc = "returned"
    /\ SelfReferenceOnly(tag_dependencies)
    /\ Len(result) = 3
    /\ result # tag_order
    /\ result[3] \in DepsOf(tag_dependencies, result[3])
    /\ result[2] \in DepsOf(tag_dependencies, result[3])
    /\ result[2] \in DepsOf(tag_dependencies, result[2])

\* the tag_info dicts of the latest schema, by tag name
TagInfoOf(schema) == IF "tags" \in DOMAIN schema THEN schema.tags ELSE <<>>

\* the value entries of a tag_info that are dicts with a condition
ConditionEntries(tag_info) ==
    IF "values" \notin DOMAIN tag_info THEN {}
    ELSE {k \in 1..Len(tag_info.values) :
             /\ "literal" \notin DOMAIN tag_info.values[k]
             /\ "req" \in DOMAIN tag_info.values[k]}

\* the names read by the tag's own condition
TagLevelNames(tag_info) ==
    IF "req" \in DOMAIN tag_info
    THEN Range(ExtractVariablesFromCondition(tag_info.req))
    ELSE {}

\* the names read by the conditions of the tag's value entries
ValueLevelNames(tag_info) ==
    UNION {Range(ExtractVariablesFromCondition(tag_info.values[k].req)) :
              k \in ConditionEntries(tag_info)}

\* C14: after analyze_dependencies the dependency set of every tag, stored
\* and returned, is the union of the names extracted from the tag's own
\* condition and from the condition of every value entry that has one; plain
\* literals and entries without a condition add nothing.
C14_DependenciesAreUnionOfConditions ==
    pc = "analyzed" =>
        \A t \in DOMAIN TagInfoOf(tag_config) :
            /\ t \in DOMAIN tag_dependencies
            /\ t \in DOMAIN dependencies
            /\ tag_dependencies[t] = TagLevelNames(TagInfoOf(tag_config)[t])
                                       \cup ValueLevelNames(TagInfoOf(tag_config)[t])
            /\ Range(dependencies[t]) = tag_dependencies[t]

C14_Witness ==
    /\ pc = "analyzed"
    /\ \E t \in DOMAIN TagInfoOf(tag_config) :
          LET tag_info == TagInfoOf(tag_config)[t]
          IN /\ "values" \in DOMAIN tag_info
             /\ \E k \in 1..Len(tag_info.values) : "literal" \in DOMAIN tag_info.values[k]
             /\ \E k \in 1..Len(tag_info.values) :
                   DOMAIN tag_info.values[k] = {"value"}
             /\ Cardinality(ConditionEntries(tag_info)) >= 2
             /\ TagLevelNames(tag_info) # {}
             /\ ~(ValueLevelNames(tag_info) \subseteq TagLevelNames(tag_info))
             /\ Cardinality(tag_dependencies[t]) = 3

\* C15: the map stored and the map returned by analyze_dependencies have the
\* tag names of the schema as keys and no other key; a tag without a
\* condition of its own and without a condition in its values has an empty
\* collection.
C15_KeysAreSchemaTags ==
    pc = "analyzed" =>
        /\ DOMAIN tag_dependencies = DOMAIN TagInfoOf(tag_config)
        /\ DOMAIN dependencies = DOMAIN TagInfoOf(tag_config)
        /\ \A t \in DOMAIN TagInfoOf(tag_config) :
              ("req" \notin DOMAIN TagInfoOf(tag_config)[t]
                  /\ ConditionEntries(TagInfoOf(tag_config)[t]) = {}) =>
                 (tag_dependencies[t] = {} /\ dependencies[t] = <<>>)

C15_Witness ==
    /\ pc = "analyzed"
    /\ \E t, u \in DOMAIN tag_dependencies :
          /\ tag_dependencies[t] = {}
          /\ "values" \in DOMAIN TagInfoOf(tag_config)[t]
          /\ ~(tag_dependencies[u] \subseteq DOMAIN tag_dependencies)

\* the list without the elements that occur earlier in it
FirstOccurrences(l) ==
    LET keep == {k \in 1..Len(l) : \A j \in 1..(k - 1) : l[j] # l[k]}
        RECURSIVE Pick(_)
        Pick(k) == IF k > Len(l) THEN <<>>
                   ELSE IF k \in keep THEN <<l[k]>> \o Pick(k + 1)
                   ELSE Pick(k + 1)
    IN Pick(1)

\* the names of the tag's own condition followed by the names of the
\* conditions of its values from entry k on, as they are written
RECURSIVE ValueLevelAppearances(_, _)
ValueLevelAppearances(tag_info, k) ==
    IF "values" \notin DOMAIN tag_info THEN <<>>
    ELSE IF k > Len(tag_info.values) THEN <<>>
    ELSE (IF k \in ConditionEntries(tag_info)
          THEN ExtractVariablesFromCondition(tag_info.values[k].req)
          ELSE <<>>) \o ValueLevelAppearances(tag_info, k + 1)

Appearances(tag_info) ==
    (IF "req" \in DOMAIN tag_info
     THEN ExtractVariablesFromCondition(tag_info.req) ELSE <<>>)
        \o ValueLevelAppearances(tag_info, 1)

\* C16: the list returned for a tag holds the tag's dependency names once
\* each, in the order of their first appearance in the tag's own condition
\* followed by the conditions of its values in their listed order.
C16_ReturnedInOrderOfFirstAppearance ==
    pc = "analyzed" =>
        \A t \in DOMAIN dependencies :
            dependencies[t] = FirstOccurrences(Appearances(TagInfoOf(tag_config)[t]))

\* the dependency sets the latest schema gives, tag by tag
SchemaDependencies(schema) ==
    [t \in DOMAIN TagInfoOf(schema) |->
        TagLevelNames(TagInfoOf(schema)[t]) \cup ValueLevelNames(TagInfoOf(schema)[t])]

\* the stored map has the keys and the sets of SchemaDependencies(schema)
StoredIs(schema) ==
    /\ DOMAIN tag_dependencies = DOMAIN TagInfoOf(schema)
    /\ \A t \in DOMAIN tag_dependencies :
          tag_dependencies[t] = SchemaDependencies(schema)[t]

\* C17: when an analyze_dependencies call has returned, a call on an engine
\* that holds the map of an earlier schema included, the stored map has the
\* tags of the latest schema as keys with the sets that schema gives, and it
\* is empty when the schema has no tags entry; the same holds when the
\* ordering or the detection that follows has returned, the result of the
\* ordering respects the sets of the latest schema and every recorded cycle
\* runs along them.
C17_AnalysisReplacesMap ==
    /\ pc \in {"analyzed", "returned", "detected"} => StoredIs(tag_config)
    /\ "tags" \notin DOMAIN tag_config => DOMAIN tag_dependencies = {}
    /\ (pc = "returned" /\ NoDup(tag_order)) =>
          Satisfied(SchemaDependencies(tag_config), result)
    /\ \A k \in 1..Len(cycles) :
          \A p \in 1..(Len(cycles[k]) - 1) :
             cycles[k][p + 1] \in DepsOf(SchemaDependencies(tag_config), cycles[k][p])

C17_Witness ==
    /\ analyses = 2
    /\ pc = "returned"
    /\ DOMAIN tag_dependencies = {"a"}
    /\ tag_dependencies["a"] = {"b", "c"}
    /\ tag_order = <<"a", "b", "c">>
    /\ result = <<"b", "c", "a">>

\* C18: analyze_dependencies on a schema without a tags entry or with an
\* empty one returns an empty map, and get_ordered_tags on an empty
\* tag_order returns an empty list; neither call raises.
C18_EmptyInputsGiveEmptyResults ==
    /\ (pc = "analyzed" /\ DOMAIN TagInfoOf(tag_config) = {}) =>
          DOMAIN dependencies = {}
    /\ (pc = "returned" /\ tag_order = <<>>) => result = <<>>
    /\ pc # "raised"

C18_Witness ==
    /\ pc = "returned"
    /\ tag_order = <<>>
    /\ result = <<>>
    /\ "tags" \in DOMAIN tag_config
    /\ DOMAIN tag_dependencies = {}
    /\ analyses = 2

\* the text outside the string literals: reading from index i on, a quote
\* character of either style that has a later one of its style opens a
\* literal that ends there
RECURSIVE OutsideLiteralsFrom(_, _)
OutsideLiteralsFrom(text, i) ==
    IF i >= Len(text) THEN <<>>
    ELSE IF /\ text[i + 1] \in {DoubleQuote, SingleQuote}
            /\ ClosingQuote(text, text[i + 1], i + 1) # -1
         THEN OutsideLiteralsFrom(text, ClosingQuote(text, text[i + 1], i + 1) + 1)
         ELSE <<text[i + 1]>> \o OutsideLiteralsFrom(text, i + 1)

\* the identifiers, operators left out, of a text
IdentifiersOf(text) ==
    {Str(FindAll(text)[k]) :
        k \in {j \in 1..Len(FindAll(text)) : Lower(FindAll(text)[j]) \notin operators}}

\* a str, not None
IsStr(cond) == cond # None

\* C19: the names returned for a condition string are the identifiers of the
\* text outside its string literals: no name comes from the inside of a
\* double-quoted or single-quoted literal, and every identifier outside the
\* literals is returned, also when a literal of one quote style holds the
\* other quote character.
C19_LiteralContentsNeverReported ==
    (pc = "extracted" /\ IsStr(condition)) =>
        {variables[k] : k \in 1..Len(variables)}
            = IdentifiersOf(OutsideLiteralsFrom(condition, 0))

\* the names of the matches that are no operators, in the order of the
\* matches
NamesInOrder(matches) ==
    LET kept == SelectSeq(matches, LAMBDA m : Lower(m) \notin operators)
    IN [k \in 1..Len(kept) |-> Str(kept[k])]

OperatorWords ==
    {<<"a", "n", "d">>, <<"o", "r">>, <<"n", "o", "t">>, <<"t", "r", "u", "e">>,
     <<"f", "a", "l", "s", "e">>, <<"n", "u", "l", "l">>,
     <<"u", "n", "d", "e", "f", "i", "n", "e", "d">>}

\* the word is the operator written with each letter in either case
InAnyCase(word, op) ==
    /\ Len(word) = Len(op)
    /\ \A k \in 1..Len(op) :
          \/ word[k] = op[k]
          \/ (word[k] \in DOMAIN ToLower /\ ToLower[word[k]] = op[k])

IsOperatorWord(word) == \E op \in OperatorWords : InAnyCase(word, op)


\* the tokens of the text left by the removal of the literals
TokensOf(cond) == FindAll(ConditionWithoutStrings(cond))

\* the names are the tokens that are no operator words, and no others
KeepsAllButOperatorWords(tokens, names) ==
    /\ \A k \in 1..Len(tokens) :
          IF IsOperatorWord(tokens[k])
          THEN Str(tokens[k]) \notin Range(names)
          ELSE Str(tokens[k]) \in Range(names)
    /\ Range(names) \subseteq {Str(tokens[k]) : k \in 1..Len(tokens)}

Occurrences(text, c) == Cardinality({k \in 1..Len(text) : text[k] = c})

\* no quote character has a partner: the text has no literal to remove
NoLiteral(text) ==
    Occurrences(text, DoubleQuote) <= 1 /\ Occurrences(text, SingleQuote) <= 1

\* C22: for None and for the empty str the method returns the empty list;
\* for every str, unbalanced quotes and parentheses included, it returns a
\* list of names and raises nothing, and a str in which no quote character
\* has a partner gives the tokens of the whole text.
C22_AbsentEmptyOrMalformed ==
    pc = "extracted" =>
        /\ variables # TypeError
        /\ (condition = None \/ condition = <<>>) => variables = <<>>
        /\ IsStr(condition) =>
              \E n \in 0..Len(condition) : DOMAIN variables = 1..n
        /\ (IsStr(condition) /\ NoLiteral(condition)) =>
              variables = FirstOccurrences(NamesInOrder(FindAll(condition)))
        /\ condition = ReqUnbalanced => variables = <<"a", "b">>

C22_Witness ==
    /\ pc = "extracted"
    /\ condition = <<"o", SingleQuote, "r", DoubleQuote, "_">>
    /\ variables = <<"o", "r", "_">>

\* the tag at position k of l has a dependency at a later position
SitsBeforeDependency(deps, l, k) ==
    \E q \in (k + 1)..Len(l) : l[q] \in DepsOf(deps, l[k])

\* m is l with the element at position from taken out and put back at
\* position to, nothing else moved
MovedFromTo(l, m, from, to) ==
    /\ Len(m) = Len(l)
    /\ m[to] = l[from]
    /\ Pop(m, to - 1) = Pop(l, from - 1)

\* a pass of the loop that changes the working list
RepairStep == pc = "while" /\ ordered_tags' # ordered_tags

\* a repair step takes one tag from a position to a later one, directly
\* behind a name of its dependency set, and another pass follows
RepairMovesOneTag ==
    RepairStep =>
        /\ pc' = "while"
        /\ \E from, to \in 1..Len(ordered_tags) :
              /\ from < to
              /\ MovedFromTo(ordered_tags, ordered_tags', from, to)
              /\ ordered_tags[to] \in DepsOf(tag_dependencies, ordered_tags[from])
              /\ ordered_tags'[to - 1] = ordered_tags[to]

\* in a duplicate-free list the tag moved is the first that sits before one
\* of its dependencies, and it goes behind the last of them
RepairMovesLowestBehindLatest ==
    (RepairStep /\ NoDup(tag_order)) =>
        LET from == Min({k \in 1..Len(ordered_tags) :
                            SitsBeforeDependency(tag_dependencies, ordered_tags, k)})
            to == Max[DepPositions(tag_dependencies, ordered_tags, from)]
        IN MovedFromTo(ordered_tags, ordered_tags', from, to)

\* a pass over a duplicate-free list in which a tag sits before one of its
\* dependencies is a repair step
RepairWhenNeeded ==
    (/\ pc = "while"
     /\ NoDup(tag_order)
     /\ \E k \in 1..Len(ordered_tags) :
           SitsBeforeDependency(tag_dependencies, ordered_tags, k)) =>
        ordered_tags' # ordered_tags

\* C23: a pass of get_ordered_tags that changes the list moves one tag and
\* no other: the tag goes to a greater index, directly behind one of its
\* dependencies, and the loop makes another pass from index 0; in a
\* duplicate-free list the tag is the lowest-index tag with a dependency at
\* a greater index and it lands directly behind the latest of them.
C23_RepairStepMovesOneTag ==
    /\ [][RepairMovesOneTag]_vars
    /\ [][RepairMovesLowestBehindLatest]_vars
    /\ [][RepairWhenNeeded]_vars

C23_Witness ==
    /\ pc = "while"
    /\ NoDup(tag_order)
    /\ Len(ordered_tags) = 3
    /\ Len(previous_order) = 3
    /\ ordered_tags = <<previous_order[1], previous_order[3], previous_order[2]>>
    /\ {ordered_tags[1], ordered_tags[2]}
          \subseteq DepsOf(tag_dependencies, ordered_tags[3])

\* C24: in TagRegistry.get_tag_config the ordering is not started on a map
\* with a dependency cycle: whenever get_ordered_tags runs or has returned,
\* the stored map has no cycle.
C24_CyclicSchemaNeverOrdered ==
    pc \in {"while", "returned"} => ~HasCycle(tag_dependencies)

\* a step of a running get_ordered_tags call leaves the caller's list as it
\* was
ArgumentKept == pc = "while" => tag_order' = tag_order

\* a step of a call of either operation leaves the stored map as it was
MapKept == pc # "constructed" => tag_dependencies' = tag_dependencies

\* C25: no step of get_ordered_tags changes the caller's tag_order, no step
\* of get_ordered_tags or detect_circular_dependencies changes the stored
\* dependency map, and the second of two equal calls made after one
\* analysis returns what the first returned.
C25_CallsAreReadOnly ==
    /\ [][ArgumentKept]_vars
    /\ [][MapKept]_vars
    /\ []((pc = "returned" /\ first_result # None) => result = first_result)
    /\ []((pc = "detected" /\ first_result # None) => cycles = first_result)

C25_Witness ==
    /\ pc = "detected"
    /\ first_result # None
    /\ Len(cycles) = 2
    /\ cycles = first_result

\* the tag has no dependency that occurs in tag_order
IsFree(tag_name) == DepsOf(tag_dependencies, tag_name) \cap Range(tag_order) = {}

\* the tags of l that have no dependency in tag_order, in their order in l
FreeTags(l) == SelectSeq(l, IsFree)

\* the element a repair step takes out and puts back has a dependency in
\* tag_order
FreeTagsStay ==
    RepairStep =>
        \E from, to \in 1..Len(ordered_tags) :
            /\ from < to
            /\ MovedFromTo(ordered_tags, ordered_tags', from, to)
            /\ ~IsFree(ordered_tags[from])

PassIgnoresSetOrder ==
    pc = "while" => ordered_tags' = ForLoop(tag_dependencies, ordered_tags)

\* C27: in runs that differ in the order in which the dependency sets yield
\* their names, every pass of get_ordered_tags gives the list determined by
\* the working list and the sets alone, and the returned list is the one
\* that such a pass leaves as it is.
C27_ResultIgnoresSetOrder ==
    /\ [][PassIgnoresSetOrder]_vars
    /\ [](pc = "returned" => ForLoop(tag_dependencies, result) = result)

C27_Witness ==
    /\ pc = "returned"
    /\ NoDup(tag_order)
    /\ Len(tag_order) = 3
    /\ tag_order[1] \in DOMAIN tag_dependencies
    /\ iteration.sets[tag_order[1]] = <<tag_order[3], tag_order[2]>>
    /\ result = <<tag_order[2], tag_order[3], tag_order[1]>>

\* the dependency edges of a map: a key and a name of its set
Edges(deps) ==
    {e \in (DOMAIN deps) \X (UNION {deps[t] : t \in DOMAIN deps}) :
        e[2] \in deps[e[1]]}

\* the last step of a cycle: the edge that leads back to its first name
ClosingEdge(cycle) == <<cycle[Len(cycle) - 1], cycle[Len(cycle)]>>

\* a step that records a cycle records one, whose closing edge leads from
\* the end of the path of the calling dfs to a name on that path
RecordsBackEdge ==
    (pc \in {"outer", "dfs"} /\ cycles' # cycles) =>
        /\ Len(cycles') = Len(cycles) + 1
        /\ SubSeq(cycles', 1, Len(cycles)) = cycles
        /\ LET cycle == cycles'[Len(cycles')]
           IN /\ Top.path # <<>>
              /\ ClosingEdge(cycle) = <<Top.path[Len(Top.path)], Top.tag_name>>
              /\ cycle[Len(cycle)] \in Range(Top.path)

\* C28: the cycles recorded by one detect_circular_dependencies call are
\* pairwise different, their closing edges are pairwise different dependency
\* edges of the map, each recorded when the edge led back to a name on the
\* path of the traversal, and there are at most as many cycles as the map
\* has dependency edges.
C28_NoCycleReportedTwice ==
    /\ [](\A k, m \in 1..Len(cycles) :
             k # m => /\ cycles[k] # cycles[m]
                      /\ ClosingEdge(cycles[k]) # ClosingEdge(cycles[m]))
    /\ [](\A k \in 1..Len(cycles) :
             ClosingEdge(cycles[k]) \in Edges(tag_dependencies))
    /\ [](Len(cycles) <= Cardinality(Edges(tag_dependencies)))
    /\ [][RecordsBackEdge]_vars

C28_Witness ==
    /\ pc = "detected"
    /\ Len(cycles) = 3
    /\ cycles[1][1] = cycles[2][1]
    /\ cycles[2][1] = cycles[3][1]
    /\ Len(cycles[1]) = 2

\* the innermost dfs call is at its entry
AtDfsEntry == pc = "dfs" /\ Top.at = "entry"

\* C29: at every entry of dfs the recursion-stack set is the set of the
\* names of the path argument, so a tag found on the recursion stack is in
\* the path and path.index finds it (no ValueError is raised); between the
\* dfs calls of the outer loop and when the call returns the
\* recursion-stack set is empty.
C29_RecursionStackIsPath ==
    /\ AtDfsEntry => rec_stack = Range(Top.path)
    /\ (AtDfsEntry /\ Top.tag_name \in rec_stack) =>
          /\ PathIndex(Top.path, Top.tag_name) # -1
          /\ Top.path[PathIndex(Top.path, Top.tag_name) + 1] = Top.tag_name
    /\ pc # "raised"
    /\ pc \in {"outer", "detected"} => rec_stack = {}

C29_Witness ==
    /\ AtDfsEntry
    /\ Len(Top.path) = 3
    /\ Top.tag_name = Top.path[2]
    /\ cycles # <<>>
    /\ rec_stack = Range(Top.path)

\* the indices of the working list whose tag passes the move test
MoveIndices ==
    {i \in 0..(Len(ordered_tags) - 1) :
        NeedsMove(tag_dependencies, ordered_tags, i)}

\* a pass ends the loop when no tag passes the move test, and only then
ExitsWhenNothingMoved ==
    pc = "while" =>
        /\ (pc' = "returned") <=> (MoveIndices = {})
        /\ (ordered_tags' = ordered_tags) <=> (MoveIndices = {})
        /\ MoveIndices # {} => pc' = "while"

\* C30: the exit test of get_ordered_tags holds after a pass exactly when
\* no tag passed the move test in it: a move of any tag that passes the test
\* gives a list different from the list before the move, repeated names in
\* tag_order included, and a pass with a move is followed by another pass.
C30_ExitTestMeansNoMove ==
    /\ [](pc = "while" =>
             \A i \in MoveIndices :
                 MoveTag(ordered_tags, i,
                         LatestDepIndex(tag_dependencies, ordered_tags,
                                        ordered_tags[i + 1])) # ordered_tags)
    /\ [][ExitsWhenNothingMoved]_vars

C30_Witness ==
    /\ pc = "while"
    /\ Len(previous_order) = 3
    /\ previous_order[1] = previous_order[3]
    /\ previous_order[1] # previous_order[2]
    /\ ordered_tags = <<previous_order[2], previous_order[1], previous_order[3]>>
    /\ previous_order[1] \in DepsOf(tag_dependencies, previous_order[1])

====
